---- MODULE Spec2Model ----
(***************************************************************************)
(* Document retrieval and structured-extraction pipeline of the document   *)
(* chatbot: the tolerant parsing of model replies (workflows.py,           *)
(* business_docs_analyzer.py), the retrieval cascade, the invoice          *)
(* analysis, the overall risk level of the contract and workflow reports,  *)
(* the payroll reconciliation (salary_slip_analyzer.py), the splitting of  *)
(* an ingested text and the process-wide retriever registry (app.py).      *)
(*                                                                         *)
(* A model reply is a sequence of tokens.  "{" "}" "[" "]" are the JSON    *)
(* brackets, "v" is a JSON scalar or a key/value member, "x" is a word of  *)
(* prose (never valid JSON) and " " is white space.  Separators (commas,   *)
(* colons) are elided: a container is its brackets around its members.     *)
(***************************************************************************)
EXTENDS Integers, Sequences, FiniteSets, TLC

VARIABLES
    reply,              \* the text returned by the inference call (token sequence)
    reply_data,         \* the value the JSON of reply denotes when it parses
    parser,             \* the routine that parsed reply ("none" before parsing)
    parsed,             \* what that routine returned
    extracted_data,     \* the dict json.loads returned, as the analysis leaves it
    analyzer,           \* the analyzer running the retrieval cascade
    has_grd,            \* hasattr(retriever, 'get_relevant_documents')
    pc,                 \* the position of the request in its handler
    qi,                 \* index of the next query of the running loop
    content,            \* len(content.strip()) of the kept content; 0 is ""
    docs,               \* the kept document list: the query it came from, its length
    longest,            \* history: the longest result any executed query returned
    doc_type,           \* detect_document_type's result
    call_failed,        \* the last inference call raised (time-out, service error)
    financial_info,     \* analyze_invoice_detailed's local of that name
    line_items_info,    \* analyze_invoice_detailed's local of that name
    calculation_errors, \* analyze_invoice_detailed's local of that name
    tables,             \* extract_tables' result in analyze_business_doc
    generic,            \* insights, risk_analysis, action_items, negotiation_points
    response,           \* what /api/business-docs/analyze answers
    payment_fault,      \* the service fails on the payment-terms prompt of this run
    all_ok,             \* history: every inference call so far returned well-formed JSON
    calls,              \* history: the inference calls issued, with their context budgets
    tables_content,     \* history: length of the content extract_tables retrieved
    retriever_cache,    \* app.py's global of that name, one copy per worker process
    file_store,         \* app.py's global of that name, one copy per worker process
    owned,              \* history: the client has ingested a document
    last_request,       \* the endpoint, client, input, status and retriever of the last request
    threads,            \* per client: the request a thread of the server is in the middle of
    last_write,         \* history: per registry key, whose index was assigned last
    upload_text,        \* app.py's `text`: what an ingestion endpoint extracted
    chunks,             \* the documents CharacterTextSplitter made of it
    edi_content,        \* the text of the file sent to /api/analyze-edi, by chunks
    edi_pc,             \* the position of that request in its handler
    edi_validation,     \* validation of the handler (on the whole text)
    edi_response        \* the answer of /api/analyze-edi

parseVars == <<reply, reply_data, parser, parsed, extracted_data>>
cascadeVars == <<analyzer, has_grd, pc, qi, content, docs, longest>>
runVars ==
    <<doc_type, call_failed, financial_info, line_items_info, calculation_errors,
      tables, generic, response, payment_fault, all_ok, calls, tables_content>>

cascadeVarsButPc == <<analyzer, has_grd, qi, content, docs, longest>>

registryVars == <<retriever_cache, file_store, owned, last_request, threads, last_write>>

ingestVars == <<upload_text, chunks>>

ediVars == <<edi_content, edi_pc, edi_validation, edi_response>>

vars == <<parseVars, cascadeVars, runVars, registryVars, ingestVars, ediVars>>

(***************************************************************************)
(* Bounds                                                                  *)
(***************************************************************************)
MaxReplyLen == 4

MaxTables == 2

MaxRows == 1

MaxItems == 2

MaxTaxes == 1

MaxRisks == 3

MaxPieces == 3

MaxChunks == 5

NumClients == 2

Token == {"{", "}", "[", "]", "v", "x", " "}

RECURSIVE SeqsUpTo(_, _)
SeqsUpTo(S, n) ==
    IF n = 0 THEN {<<>>}
    ELSE LET shorter == SeqsUpTo(S, n - 1)
         IN  shorter \cup {Append(s, e) : s \in {t \in shorter : Len(t) = n - 1}, e \in S}

Replies == SeqsUpTo(Token, MaxReplyLen)

Range(s) == {s[i] : i \in 1..Len(s)}

(***************************************************************************)
(* str.strip, str.startswith, json.loads and re.search on token sequences  *)
(***************************************************************************)
RECURSIVE LStrip(_)
LStrip(s) == IF s # <<>> /\ Head(s) = " " THEN LStrip(Tail(s)) ELSE s

RECURSIVE RStrip(_)
RStrip(s) ==
    IF s # <<>> /\ s[Len(s)] = " " THEN RStrip(SubSeq(s, 1, Len(s) - 1)) ELSE s

Strip(s) == RStrip(LStrip(s))

StartsWith(s, tok) == s # <<>> /\ Head(s) = tok

Closer(open) == IF open = "{" THEN "}" ELSE "]"

\* Index just after the JSON value that starts at s[i]; 0 when there is none.
RECURSIVE ValueEnd(_, _), MembersEnd(_, _, _)
ValueEnd(s, i) ==
    IF i > Len(s) THEN 0
    ELSE IF s[i] = "v" THEN i + 1
    ELSE IF s[i] \in {"{", "["} THEN MembersEnd(s, i + 1, Closer(s[i]))
    ELSE 0

MembersEnd(s, i, close) ==
    IF i > Len(s) THEN 0
    ELSE IF s[i] = close THEN i + 1
    ELSE IF s[i] = " " THEN MembersEnd(s, i + 1, close)
    ELSE LET e == ValueEnd(s, i)
         IN  IF e = 0 THEN 0 ELSE MembersEnd(s, e, close)

\* json.loads(s) returns (TRUE) or raises (FALSE): one value, white space around it.
JsonLoadsOk(s) == LET t == Strip(s) IN ValueEnd(t, 1) = Len(t) + 1

\* re.search(r'\{.*\}', s, re.DOTALL) (or with [ ]): the leftmost opening bracket
\* to the last closing bracket after it; <<>> stands for no match.
RegexSearch(s, open) ==
    LET opens  == {i \in 1..Len(s) : s[i] = open}
        closes == {j \in 1..Len(s) : s[j] = Closer(open)}
    IN  IF opens = {} THEN <<>>
        ELSE LET i    == CHOOSE k \in opens : \A m \in opens : k <= m
                 back == {j \in closes : j > i}
             IN  IF back = {} THEN <<>>
                 ELSE SubSeq(s, i, CHOOSE k \in back : \A m \in back : k >= m)

(***************************************************************************)
(* Results of a parsing routine                                            *)
(***************************************************************************)
Parsed(text)  == [kind |-> "parsed", text |-> text]
Fallback      == [kind |-> "fallback", text |-> <<>>]
Raised        == [kind |-> "raised", text |-> <<>>]
EmptyObject   == [kind |-> "empty", text |-> <<>>]
NotParsed     == [kind |-> "none", text |-> <<>>]

\* try: if result.strip().startswith(open): return json.loads(result)
\*      m = re.search(open .* close, result); if m: return json.loads(m.group())
\* except: pass;  return fallback
SniffParse(result, open) ==
    IF StartsWith(Strip(result), open)
    THEN IF JsonLoadsOk(result) THEN Parsed(Strip(result)) ELSE Fallback
    ELSE LET m == RegexSearch(result, open)
         IN  IF m = <<>> THEN Fallback
             ELSE IF JsonLoadsOk(m) THEN Parsed(m) ELSE Fallback

\* WorkflowProcessor.extract_insights: the reply parsed as an object.
ParseInsights(result) == SniffParse(result, "{")

\* WorkflowProcessor.produce_risk_analysis: the reply parsed as an object.
ParseRiskAnalysis(result) == SniffParse(result, "{")

\* BusinessDocsAnalyzer.extract_tables: the reply parsed as an array.
ParseTablesText(result) == SniffParse(result, "[")

\* analyze_invoice_detailed, comprehensive reply: no match gives {}, a failing
\* json.loads raises into the enclosing except.
ParseComprehensive(result) ==
    IF StartsWith(Strip(result), "{")
    THEN IF JsonLoadsOk(result) THEN Parsed(Strip(result)) ELSE Raised
    ELSE LET m == RegexSearch(result, "{")
         IN  IF m = <<>> THEN EmptyObject
             ELSE IF JsonLoadsOk(m) THEN Parsed(m) ELSE Raised

\* analyze_invoice_detailed, risk reply: risk_info keeps its default on failure.
ParseInvoiceRisk(result) == SniffParse(result, "{")

\* analyze_invoice_detailed, payment reply: payment_info stays {} on failure.
ParseInvoicePayment(result) == SniffParse(result, "{")

(***************************************************************************)
(* extract_tables: the reply is a JSON array of tables, each with rows.  A *)
(* row is the set of sample-data patterns that json.dumps(row).lower()     *)
(* contains.  The reply text is the rendered array, with prose before or   *)
(* after it, or cut short.                                                 *)
(***************************************************************************)
SamplePatterns == {"Product A", "Product B", "Product C", "Sample", "Example", "Test"}

RowValues == {{}, {"Product A"}}

TableValues == {[rows |-> r] : r \in SeqsUpTo(RowValues, MaxRows)}

TablePayloads == SeqsUpTo(TableValues, MaxTables)

RECURSIVE Repeat(_, _)
Repeat(tok, n) == IF n = 0 THEN <<>> ELSE <<tok>> \o Repeat(tok, n - 1)

RenderTable(t) == <<"{", "[">> \o Repeat("v", Len(t.rows)) \o <<"]", "}">>

RECURSIVE RenderTables(_)
RenderTables(ts) ==
    IF ts = <<>> THEN <<>> ELSE RenderTable(Head(ts)) \o RenderTables(Tail(ts))

RenderReply(lead, body, trail, cut) ==
    LET whole == lead \o body \o trail
    IN  IF cut THEN SubSeq(whole, 1, Len(whole) - 1) ELSE whole

TableReplyText(ts, lead, trail, cut) ==
    RenderReply(lead, <<"[">> \o RenderTables(ts) \o <<"]">>, trail, cut)

Wrappers == {<<>>, <<"x">>}

\* any(pattern.lower() in row_str for pattern in sample_patterns)
HasSamplePattern(row) == row \cap SamplePatterns # {}

\* if parsed and len(parsed) > 0: first_table = parsed[0]
\*     if first_table.get('rows'): first_row = first_table['rows'][0] ...
RejectSampleData(ts) ==
    IF ts # <<>> /\ ts[1].rows # <<>> /\ HasSamplePattern(ts[1].rows[1])
    THEN <<>>
    ELSE ts

\* Lines 167-200 of extract_tables: the strict path, the bracket-search path,
\* and [] when json.loads raises or nothing matches.
TablesFromReply(text, ts) ==
    IF ParseTablesText(text).kind = "parsed" THEN RejectSampleData(ts) ELSE <<>>

(***************************************************************************)
(* The retrieval cascade: _extract_invoice_content and                     *)
(* _extract_contract_content (the same code with other query strings).     *)
(* A query against the retriever raises, returns no document, or returns   *)
(* documents whose joined, stripped text has some length.                  *)
(***************************************************************************)
SufficientLen == 200

NumTargeted == 4

NumBroad == 4

ContentLens == {0, 10, 30, 200, 300}

NoDocs == [src |-> "none", len |-> 0]

QueryOutcomes ==
    {[kind |-> "error", len |-> 0], [kind |-> "empty", len |-> 0]}
        \cup {[kind |-> "docs", len |-> n] : n \in ContentLens}

\* A plausible slip: every result that has documents replaces what is kept.
KeepsLatest(kept, o) == o.kind = "docs"

\* if temp_docs: temp_content = format_docs(temp_docs)
\*     if len(temp_content.strip()) > len(content.strip()): keep it
Keeps(kept, o) == o.kind = "docs" /\ o.len > kept

KeepContent(kept, o) == IF Keeps(kept, o) THEN o.len ELSE kept

\* A plausible slip: the content is replaced and the document list is not.
KeepDocsStale(keptDocs, kept, o, src) == keptDocs

KeepDocs(keptDocs, kept, o, src) ==
    IF Keeps(kept, o) THEN [src |-> src, len |-> o.len] ELSE keptDocs

Longer(seen, o) == IF o.kind = "docs" /\ o.len > seen THEN o.len ELSE seen

\* Strategy 1 runs only with get_relevant_documents; without it the loop of
\* strategy 2 does nothing and strategy 3 is next.
CascadeStart(grd) == IF grd THEN "targeted" ELSE "vector"

\* if len(content.strip()) < 200: (before strategy 2 and before strategy 3)
AfterTargeted(c) == IF c < SufficientLen THEN "broad" ELSE "retrieved"

\* A plausible slip: content of exactly the threshold length still counts as short.
AfterBroadInclusive(c) == IF c <= SufficientLen THEN "vector" ELSE "retrieved"

AfterBroad(c) == IF c < SufficientLen THEN "vector" ELSE "retrieved"

\* A plausible slip: the loop ends at the first result that reaches the threshold.
TargetedQueryGated ==
    /\ pc = "targeted"
    /\ \E o \in QueryOutcomes :
          /\ content' = KeepContent(content, o)
          /\ docs' = KeepDocs(docs, content, o, "targeted")
          /\ longest' = Longer(longest, o)
          /\ IF qi < NumTargeted /\ content' < SufficientLen
             THEN qi' = qi + 1 /\ pc' = "targeted"
             ELSE qi' = 1 /\ pc' = AfterTargeted(content')
    /\ UNCHANGED <<analyzer, has_grd, parseVars, runVars, registryVars,
                   ingestVars, ediVars>>

TargetedQuery ==
    /\ pc = "targeted"
    /\ \E o \in QueryOutcomes :
          /\ content' = KeepContent(content, o)
          /\ docs' = KeepDocs(docs, content, o, "targeted")
          /\ longest' = Longer(longest, o)
          /\ IF qi < NumTargeted
             THEN qi' = qi + 1 /\ pc' = "targeted"
             ELSE qi' = 1 /\ pc' = AfterTargeted(content')
    /\ UNCHANGED <<analyzer, has_grd, parseVars, runVars, registryVars,
                   ingestVars, ediVars>>

BroadQuery ==
    /\ pc = "broad"
    /\ \E o \in QueryOutcomes :
          /\ content' = KeepContent(content, o)
          /\ docs' = KeepDocs(docs, content, o, "broad")
          /\ longest' = Longer(longest, o)
          /\ IF qi < NumBroad
             THEN qi' = qi + 1 /\ pc' = "broad"
             ELSE qi' = 1 /\ pc' = AfterBroad(content')
    /\ UNCHANGED <<analyzer, has_grd, parseVars, runVars, registryVars,
                   ingestVars, ediVars>>

\* vectorstore.similarity_search("", k=200) on retriever.vectorstore
VectorSearch ==
    /\ pc = "vector"
    /\ \E o \in QueryOutcomes :
          /\ content' = KeepContent(content, o)
          /\ docs' = KeepDocs(docs, content, o, "vector")
          /\ longest' = Longer(longest, o)
    /\ pc' = "retrieved"
    /\ UNCHANGED <<analyzer, has_grd, qi, parseVars, runVars, registryVars,
                   ingestVars, ediVars>>

(***************************************************************************)
(* analyze_invoice_detailed: the comprehensive reply and its verification. *)
(* Amounts are integers counting thousandths of a currency unit; Null is   *)
(* a JSON null or an absent key, which `x.get(k, 0) or 0` turns into 0.    *)
(***************************************************************************)
Null == -1

Epsilon == 10

MinInvoiceLen == 20

MinTablesLen == 50

SubtotalVals == {Null, 20000, 20011}

TaxVals == {2000}

DiscountVals == {0, 11}

ShippingVals == {Null, 3000}

TotalVals == {22000, 22010, 22011, 25000}

ItemVals == {10000, 10011}

InvoicePayloads ==
    [subtotal : SubtotalVals, taxBreakdown : SeqsUpTo(TaxVals, MaxTaxes),
     discount : DiscountVals, shippingCharges : ShippingVals,
     totalAmount : TotalVals, lineItems : SeqsUpTo(ItemVals, MaxItems)]

\* json.loads found no object: extracted_data = {}
EmptyPayload ==
    [subtotal |-> Null, taxBreakdown |-> <<>>, discount |-> Null,
     shippingCharges |-> Null, totalAmount |-> Null, lineItems |-> <<>>]

Abs(x) == IF x < 0 THEN -x ELSE x

RECURSIVE Sum(_)
Sum(s) == IF s = <<>> THEN 0 ELSE Head(s) + Sum(Tail(s))

\* extracted_data.get(key, 0) or 0
OrZero(x) == IF x = Null THEN 0 ELSE x

TotalTax(d) == Sum(d.taxBreakdown)

\* An amount the reply holds as a currency-formatted string ("$22.00" for 22000
\* thousandths), coded as an integer below Null; a non-empty string is truthy, so
\* `x.get(k, 0) or 0` leaves it as it is.
CurrencyString(n) == -(n + 2)

\* The payloads of InvoicePayloads with one amount written as a currency string
CurrencyPayloads ==
    LET full == {d \in InvoicePayloads :
                    /\ d.subtotal # Null /\ d.shippingCharges # Null
                    /\ d.taxBreakdown # <<>> /\ d.lineItems # <<>>}
    IN  UNION {{[d EXCEPT !.subtotal = CurrencyString(@)],
                [d EXCEPT !.discount = CurrencyString(@)],
                [d EXCEPT !.shippingCharges = CurrencyString(@)],
                [d EXCEPT !.totalAmount = CurrencyString(@)],
                [d EXCEPT !.taxBreakdown[1] = CurrencyString(@)],
                [d EXCEPT !.lineItems[1] = CurrencyString(@)]} : d \in full}

\* Lines 313-328 on a string amount: sum() and the + and - of a str and a number raise
\* TypeError, float() of a string with a currency symbol raises ValueError.
ArithmeticRaises(d) ==
    LET IsString(x) == x < Null
    IN  \/ IsString(d.subtotal) \/ IsString(d.discount)
        \/ IsString(d.shippingCharges) \/ IsString(d.totalAmount)
        \/ \E i \in 1..Len(d.taxBreakdown) : IsString(d.taxBreakdown[i])
        \/ \E i \in 1..Len(d.lineItems) : IsString(d.lineItems[i])

\* A plausible slip: the discount is added instead of subtracted.
CalculatedTotalAddsDiscount(d) ==
    OrZero(d.subtotal) + TotalTax(d) + OrZero(d.discount) + OrZero(d.shippingCharges)

\* calculated_total = subtotal + total_tax - discount + shipping
CalculatedTotal(d) ==
    OrZero(d.subtotal) + TotalTax(d) - OrZero(d.discount) + OrZero(d.shippingCharges)

LineItemsTotal(d) == Sum(d.lineItems)

Finding(title, computed, stated) ==
    [title |-> title, computed |-> computed, stated |-> stated,
     diff |-> Abs(computed - stated)]

\* A plausible slip: a difference of exactly 0.01 is reported too.
VerifyTotalInclusive(d) ==
    IF Abs(CalculatedTotal(d) - OrZero(d.totalAmount)) >= Epsilon
    THEN <<Finding("Total Amount Calculation Mismatch",
                   CalculatedTotal(d), OrZero(d.totalAmount))>>
    ELSE <<>>

\* if abs(calculated_total - stated_total) > 0.01: calculation_errors.append(...)
VerifyTotal(d) ==
    IF Abs(CalculatedTotal(d) - OrZero(d.totalAmount)) > Epsilon
    THEN <<Finding("Total Amount Calculation Mismatch",
                   CalculatedTotal(d), OrZero(d.totalAmount))>>
    ELSE <<>>

\* if line_items and abs(line_items_total - subtotal) > 0.01: ...append(...)
VerifyLineItems(d) ==
    IF d.lineItems # <<>> /\ Abs(LineItemsTotal(d) - OrZero(d.subtotal)) > Epsilon
    THEN <<Finding("Line Items Total Mismatch", LineItemsTotal(d), OrZero(d.subtotal))>>
    ELSE <<>>

CalculationErrors(d) == VerifyTotal(d) \o VerifyLineItems(d)

\* except Exception as e: calculation_errors = [{"title": "Extraction Error", ...}]
ExtractionError == <<[title |-> "Extraction Error", computed |-> 0, stated |-> 0, diff |-> 0]>>

\* financial_info = {...} of the try block; empty marks the {} of the except block.
FinancialInfo(d) ==
    [empty |-> FALSE, subtotal |-> OrZero(d.subtotal), taxBreakdown |-> d.taxBreakdown,
     discount |-> OrZero(d.discount), shippingCharges |-> OrZero(d.shippingCharges),
     totalAmount |-> OrZero(d.totalAmount), lineItemsTotal |-> LineItemsTotal(d)]

EmptyFinancialInfo ==
    [empty |-> TRUE, subtotal |-> 0, taxBreakdown |-> <<>>, discount |-> 0,
     shippingCharges |-> 0, totalAmount |-> 0, lineItemsTotal |-> 0]

LineItemsInfo(d) == [empty |-> FALSE, lineItems |-> d.lineItems, totalItems |-> Len(d.lineItems)]

\* line_items_info = {"lineItems": [], "lineItemsSummary": {}} of the except block
DegradedLineItemsInfo == [empty |-> FALSE, lineItems |-> <<>>, totalItems |-> 0]

\* "lineItemsAnalysis": {} of the early returns
EmptyLineItemsInfo == [empty |-> TRUE, lineItems |-> <<>>, totalItems |-> 0]

(***************************************************************************)
(* str.format on the prompt templates of analyze_invoice_detailed          *)
(***************************************************************************)
\* The single-brace fields of risk_template after .replace("{{context}}", "{context}")
RiskTemplateFields ==
    {"context", "vendor_name", "buyer_name", "currency", "total_amount", "subtotal",
     "total_tax", "discount", "shipping", "line_items_count"}

\* The keyword arguments of the .format(...) call on it
RiskFormatArgs ==
    {"vendor_name", "buyer_name", "currency", "total_amount", "subtotal",
     "total_tax", "discount", "shipping", "line_items_count"}

\* The single-brace fields of payment_template after the same replacement
PaymentTemplateFields ==
    {"context", "payment_terms", "due_date", "payment_method", "transaction_id"}

\* The keyword arguments of the .format(...) call on it
PaymentFormatArgs == {"payment_terms", "due_date", "payment_method", "transaction_id"}

\* The fields of the template of _analyze_tax_flags_optimized after the replacement
TaxTemplateFields == {"context", "earnings_summary", "deductions_summary", "net_pay"}

\* The keyword arguments of the .format(...) call on it
TaxFormatArgs == {"earnings_summary", "deductions_summary", "net_pay"}

\* str.format raises KeyError for a field that has no argument
FormatRaises(fields, args) == fields \ args # {}

(***************************************************************************)
(* The reports                                                             *)
(***************************************************************************)
\* The early returns of analyze_invoice_detailed (insufficient content, template error)
ErrorReportKeys ==
    {"documentType", "error", "summary", "financialDetails", "lineItemsAnalysis",
     "paymentAnalysis", "riskAnalysis", "tables"}

\* The final return of analyze_invoice_detailed
FullReportKeys ==
    {"documentType", "summary", "financialDetails", "lineItemsAnalysis",
     "paymentAnalysis", "riskAnalysis", "tables", "risks", "complianceIssues",
     "calculationErrors", "missingInformation", "duplicateCharges", "suspiciousPatterns"}

\* The return of analyze_business_doc for the other document types
GenericReportKeys ==
    {"documentType", "summary", "tables", "insights", "risks", "redFlags",
     "actionItems", "negotiationPoints", "keyTerms"}

NoResponse ==
    [status |-> 0, keys |-> {}, financialDetails |-> EmptyFinancialInfo,
     lineItemsAnalysis |-> EmptyLineItemsInfo, paymentAnalysis |-> "absent"]

\* return {"documentType": "Invoice", "error": error_msg, ..., "tables": []}
InsufficientContentReport ==
    [status |-> 200, keys |-> ErrorReportKeys, financialDetails |-> EmptyFinancialInfo,
     lineItemsAnalysis |-> EmptyLineItemsInfo, paymentAnalysis |-> "empty"]

GenericReport ==
    [status |-> 200, keys |-> GenericReportKeys, financialDetails |-> EmptyFinancialInfo,
     lineItemsAnalysis |-> EmptyLineItemsInfo, paymentAnalysis |-> "absent"]

\* business_docs_analyze: except Exception as e: return jsonify({"error": str(e)}), 500
ErrorResponse ==
    [status |-> 500, keys |-> {"error"}, financialDetails |-> EmptyFinancialInfo,
     lineItemsAnalysis |-> EmptyLineItemsInfo, paymentAnalysis |-> "absent"]

(***************************************************************************)
(* /api/business-docs/analyze: analyze_business_doc on the active          *)
(* retriever.  An exception that leaves the analyzer is caught by the      *)
(* endpoint, which answers {"error": ...} with status 500.                 *)
(***************************************************************************)
\* A reply that is exactly one JSON value of the requested root type.
StrictOk(result, open) == StartsWith(Strip(result), open) /\ JsonLoadsOk(result)

DetectReplies ==
    {{}, {"invoice"}, {"contract"}, {"proposal"}, {"salary"}, {"payroll"}, {"report"},
     {"invoice", "contract"}, {"contract", "report"}}

\* The if/elif chain of detect_document_type on result.strip().lower()
DocTypeOf(words) ==
    IF "invoice" \in words THEN "Invoice"
    ELSE IF "contract" \in words THEN "Contract"
    ELSE IF "proposal" \in words THEN "Proposal"
    ELSE IF "salary" \in words \/ "payroll" \in words THEN "Salary Slip"
    ELSE IF "report" \in words THEN "Report"
    ELSE "Office Document"

ObjectBodies == {<<"{", "v", "}">>, <<"{", "}">>}

\* The replies to a prompt that asks for a JSON object
ObjectTexts ==
    {RenderReply(lead, body, trail, cut) :
        lead \in Wrappers, body \in ObjectBodies, trail \in Wrappers, cut \in BOOLEAN}
        \cup {<<"x">>}

\* The replies to a prompt that asks for a JSON array
ArrayTexts ==
    {RenderReply(lead, <<"[", "v", "]">>, trail, cut) :
        lead \in Wrappers, trail \in Wrappers, cut \in BOOLEAN}
        \cup {<<"x">>}

\* WorkflowProcessor.generate_action_items: the reply parsed as an array.
ParseActionItems(result) == SniffParse(result, "[")

\* analyze_business_doc, negotiation points: the reply parsed as an object.
ParseNegotiation(result) == SniffParse(result, "{")

NoGeneric ==
    [insights |-> "none", risk_analysis |-> "none", action_items |-> "none",
     negotiation_points |-> "none"]

\* The exception reaches business_docs_analyze's except clause.
Escapes ==
    /\ pc' = "failed"
    /\ response' = ErrorResponse

\* doc_type = self.detect_document_type(retriever)
Detect ==
    /\ pc = "detect"
    /\ \/ /\ has_grd                     \* get_relevant_documents("document") raises
          /\ Escapes
          /\ UNCHANGED <<doc_type, all_ok, calls, tables_content>>
       \/ /\ Escapes                     \* chain.invoke raises
          /\ all_ok' = FALSE
          /\ calls' = Append(calls, [step |-> "detect", budget |-> 3000])
          /\ UNCHANGED doc_type
       \/ /\ \E words \in DetectReplies : doc_type' = DocTypeOf(words)
          /\ pc' = IF doc_type' = "Invoice" THEN CascadeStart(has_grd) ELSE "tables"
          /\ UNCHANGED <<response, all_ok>>
          /\ calls' = Append(calls, [step |-> "detect", budget |-> 3000])
    /\ UNCHANGED <<parseVars, analyzer, has_grd, qi, content, docs, longest, call_failed,
                   financial_info, line_items_info, calculation_errors, tables, generic,
                   payment_fault, tables_content, registryVars,
                   ingestVars, ediVars>>

\* A plausible slip: the verification is entered without the comprehensive call.
CheckContentSkipsCall ==
    /\ pc = "retrieved"
    /\ IF content < MinInvoiceLen
       THEN pc' = "done" /\ response' = InsufficientContentReport
       ELSE pc' = "verify" /\ UNCHANGED response
    /\ UNCHANGED <<parseVars, analyzer, has_grd, qi, content, docs, longest, doc_type,
                   call_failed, financial_info, line_items_info, calculation_errors,
                   tables, generic, payment_fault, all_ok, calls, tables_content,
                   registryVars, ingestVars, ediVars>>

\* if not content or len(content.strip()) < 20: return {... "error": error_msg ...}
CheckContent ==
    /\ pc = "retrieved"
    /\ IF content < MinInvoiceLen
       THEN pc' = "done" /\ response' = InsufficientContentReport
       ELSE pc' = "comprehensive" /\ UNCHANGED response
    /\ UNCHANGED <<parseVars, analyzer, has_grd, qi, content, docs, longest, doc_type,
                   call_failed, financial_info, line_items_info, calculation_errors,
                   tables, generic, payment_fault, all_ok, calls, tables_content, registryVars,
                   ingestVars, ediVars>>

\* A plausible variant: one inference call per schema, financial fields first and
\* line items second, the second reply being the one that is parsed.
ComprehensiveCallPerSchema ==
    /\ pc = "comprehensive"
    /\ \/ /\ call_failed' = TRUE
          /\ reply' = <<>>
          /\ reply_data' = EmptyPayload
          /\ all_ok' = FALSE
          /\ calls' = Append(calls, [step |-> "financial", budget |-> 10000])
       \/ /\ call_failed' = FALSE
          /\ reply' \in ObjectTexts
          /\ IF ParseComprehensive(reply').kind = "parsed" /\ "v" \in Range(reply')
             THEN reply_data' \in InvoicePayloads
             ELSE reply_data' = EmptyPayload
          /\ all_ok' = (all_ok /\ StrictOk(reply', "{"))
          /\ calls' = calls \o <<[step |-> "financial", budget |-> 10000],
                                 [step |-> "line_items", budget |-> 10000]>>
    /\ payment_fault' \in BOOLEAN
    /\ pc' = "verify"
    /\ UNCHANGED <<parser, parsed, extracted_data, cascadeVarsButPc, doc_type,
                   financial_info,
                   line_items_info, calculation_errors, tables, generic, response,
                   tables_content, registryVars,
                   ingestVars, ediVars>>

\* comprehensive_data = chain.invoke({"context": content_str[:10000]})
ComprehensiveCall ==
    /\ pc = "comprehensive"
    /\ \/ /\ call_failed' = TRUE
          /\ reply' = <<>>
          /\ reply_data' = EmptyPayload
          /\ all_ok' = FALSE
          /\ calls' = Append(calls, [step |-> "comprehensive", budget |-> 10000])
       \/ /\ call_failed' = FALSE
          /\ reply' \in ObjectTexts
          /\ IF ParseComprehensive(reply').kind = "parsed" /\ "v" \in Range(reply')
             THEN reply_data' \in InvoicePayloads
             ELSE reply_data' = EmptyPayload
          /\ all_ok' = (all_ok /\ StrictOk(reply', "{"))
          /\ calls' = Append(calls, [step |-> "comprehensive", budget |-> 10000])
    /\ payment_fault' \in BOOLEAN      \* whether the service will fail on the payment prompt
    /\ pc' = "verify"
    /\ UNCHANGED <<parser, parsed, extracted_data, cascadeVarsButPc, doc_type,
                   financial_info,
                   line_items_info, calculation_errors, tables, generic, response,
                   tables_content, registryVars,
                   ingestVars, ediVars>>

\* A plausible slip: the verification stores the recomputed total in the parsed reply.
VerifyInvoiceWritesBack ==
    /\ pc = "verify"
    /\ LET r == IF call_failed THEN Raised ELSE ParseComprehensive(reply)
           d == IF r.kind = "parsed" THEN reply_data ELSE EmptyPayload
       IN  /\ parser' = "invoice_comprehensive"
           /\ parsed' = r
           /\ extracted_data' = [d EXCEPT !.totalAmount = CalculatedTotal(d)]
           /\ IF r.kind = "raised" \/ ArithmeticRaises(d)
              THEN /\ financial_info' = EmptyFinancialInfo
                   /\ line_items_info' = DegradedLineItemsInfo
                   /\ calculation_errors' = ExtractionError
              ELSE /\ financial_info' = FinancialInfo(d)
                   /\ line_items_info' = LineItemsInfo(d)
                   /\ calculation_errors' = CalculationErrors(d)
    /\ pc' = "risk_prompt"
    /\ UNCHANGED <<reply, reply_data, cascadeVarsButPc, doc_type, call_failed, tables,
                   generic, response, payment_fault, all_ok, calls, tables_content, registryVars,
                   ingestVars, ediVars>>

\* Lines 302-400: parse the reply, verify the calculations, build financial_info and
\* line_items_info; any exception of the try block degrades all three.
VerifyInvoice ==
    /\ pc = "verify"
    /\ LET r == IF call_failed THEN Raised ELSE ParseComprehensive(reply)
           d == IF r.kind = "parsed" THEN reply_data ELSE EmptyPayload
       IN  /\ parser' = "invoice_comprehensive"
           /\ parsed' = r
           /\ extracted_data' = d
           /\ IF r.kind = "raised" \/ ArithmeticRaises(d)
              THEN /\ financial_info' = EmptyFinancialInfo
                   /\ line_items_info' = DegradedLineItemsInfo
                   /\ calculation_errors' = ExtractionError
              ELSE /\ financial_info' = FinancialInfo(d)
                   /\ line_items_info' = LineItemsInfo(d)
                   /\ calculation_errors' = CalculationErrors(d)
    /\ pc' = "risk_prompt"
    /\ UNCHANGED <<reply, reply_data, cascadeVarsButPc, doc_type, call_failed, tables,
                   generic, response, payment_fault, all_ok, calls, tables_content, registryVars,
                   ingestVars, ediVars>>

\* formatted_risk_template = risk_template.replace("{{context}}", "{context}").format(...)
\* The statements after it (lines 436-550) run only when format returns.
FormatRiskPrompt ==
    /\ pc = "risk_prompt"
    /\ IF FormatRaises(RiskTemplateFields, RiskFormatArgs)
       THEN Escapes
       ELSE pc' = "risk_call" /\ UNCHANGED response
    /\ UNCHANGED <<parseVars, cascadeVarsButPc, doc_type, call_failed, financial_info,
                   line_items_info, calculation_errors, tables, generic, payment_fault,
                   all_ok, calls, tables_content, registryVars,
                   ingestVars, ediVars>>

TablesContent(o1, o2) ==
    IF o1.kind = "docs" THEN o1.len ELSE IF o2.kind = "docs" THEN o2.len ELSE 0

TablesRetrievalRaises(o1, o2) ==
    o1.kind = "error" \/ (o1.kind = "empty" /\ o2.kind = "error")

\* A plausible variant: the call is issued a second time when the first one raises.
ExtractTablesRetries ==
    /\ pc = "tables"
    /\ \E o1, o2 \in QueryOutcomes :
          LET raises == has_grd /\ TablesRetrievalRaises(o1, o2)
              len    == IF has_grd THEN TablesContent(o1, o2) ELSE 0
          IN  \/ /\ raises
                 /\ Escapes
                 /\ UNCHANGED <<tables, all_ok, calls, tables_content>>
              \/ /\ ~raises /\ len < MinTablesLen          \* return [] without a call
                 /\ tables' = <<>>
                 /\ pc' = "insights"
                 /\ tables_content' = len
                 /\ UNCHANGED <<response, all_ok, calls>>
              \/ /\ ~raises /\ len >= MinTablesLen         \* chain.invoke raises
                 /\ Escapes
                 /\ all_ok' = FALSE
                 /\ calls' = calls \o <<[step |-> "tables", budget |-> 8000],
                                        [step |-> "tables", budget |-> 8000]>>
                 /\ tables_content' = len
                 /\ UNCHANGED tables
              \/ /\ ~raises /\ len >= MinTablesLen
                 /\ \E ts \in TablePayloads, lead \in Wrappers, trail \in Wrappers,
                       cut \in BOOLEAN :
                       LET text == TableReplyText(ts, lead, trail, cut)
                       IN  /\ tables' = TablesFromReply(text, ts)
                           /\ all_ok' = (all_ok /\ StrictOk(text, "["))
                           /\ calls' = Append(calls, [step |-> "tables", budget |-> 8000])
                 /\ tables_content' = len
                 /\ pc' = "insights"
                 /\ UNCHANGED response
    /\ UNCHANGED <<parseVars, cascadeVarsButPc, doc_type, call_failed, financial_info,
                   line_items_info, calculation_errors, generic, payment_fault, registryVars,
                   ingestVars, ediVars>>

\* tables = self.extract_tables(retriever)
ExtractTables ==
    /\ pc = "tables"
    /\ \E o1, o2 \in QueryOutcomes :
          LET raises == has_grd /\ TablesRetrievalRaises(o1, o2)
              len    == IF has_grd THEN TablesContent(o1, o2) ELSE 0
          IN  \/ /\ raises
                 /\ Escapes
                 /\ UNCHANGED <<tables, all_ok, calls, tables_content>>
              \/ /\ ~raises /\ len < MinTablesLen          \* return [] without a call
                 /\ tables' = <<>>
                 /\ pc' = "insights"
                 /\ tables_content' = len
                 /\ UNCHANGED <<response, all_ok, calls>>
              \/ /\ ~raises /\ len >= MinTablesLen         \* chain.invoke raises
                 /\ Escapes
                 /\ all_ok' = FALSE
                 /\ calls' = Append(calls, [step |-> "tables", budget |-> 8000])
                 /\ tables_content' = len
                 /\ UNCHANGED tables
              \/ /\ ~raises /\ len >= MinTablesLen
                 /\ \E ts \in TablePayloads, lead \in Wrappers, trail \in Wrappers,
                       cut \in BOOLEAN :
                       LET text == TableReplyText(ts, lead, trail, cut)
                       IN  /\ tables' = TablesFromReply(text, ts)
                           /\ all_ok' = (all_ok /\ StrictOk(text, "["))
                           /\ calls' = Append(calls, [step |-> "tables", budget |-> 8000])
                 /\ tables_content' = len
                 /\ pc' = "insights"
                 /\ UNCHANGED response
    /\ UNCHANGED <<parseVars, cascadeVarsButPc, doc_type, call_failed, financial_info,
                   line_items_info, calculation_errors, generic, payment_fault, registryVars,
                   ingestVars, ediVars>>

WorkflowFrame ==
    UNCHANGED <<parseVars, cascadeVarsButPc, doc_type, call_failed, financial_info,
                line_items_info, calculation_errors, tables, payment_fault, tables_content,
                registryVars,
                   ingestVars, ediVars>>

\* insights = self.workflow.extract_insights(retriever, doc_type.lower())
ExtractInsights ==
    /\ pc = "insights"
    /\ \/ /\ Escapes /\ all_ok' = FALSE
          /\ calls' = Append(calls, [step |-> "insights", budget |-> Null]) /\ UNCHANGED generic
       \/ /\ \E text \in ObjectTexts :
                /\ generic' = [generic EXCEPT !.insights = ParseInsights(text).kind]
                /\ all_ok' = (all_ok /\ StrictOk(text, "{"))
                /\ calls' = Append(calls, [step |-> "insights", budget |-> Null])
          /\ pc' = "risk_analysis"
          /\ UNCHANGED response
    /\ WorkflowFrame

\* risk_analysis = self.workflow.produce_risk_analysis(retriever)
ProduceRiskAnalysis ==
    /\ pc = "risk_analysis"
    /\ \/ /\ Escapes /\ all_ok' = FALSE
          /\ calls' = Append(calls, [step |-> "risk_analysis", budget |-> Null]) /\ UNCHANGED generic
       \/ /\ \E text \in ObjectTexts :
                /\ generic' = [generic EXCEPT !.risk_analysis = ParseRiskAnalysis(text).kind]
                /\ all_ok' = (all_ok /\ StrictOk(text, "{"))
                /\ calls' = Append(calls, [step |-> "risk_analysis", budget |-> Null])
          /\ pc' = "action_items"
          /\ UNCHANGED response
    /\ WorkflowFrame

\* action_items = self.workflow.generate_action_items(retriever); the report is
\* returned here unless the document is a contract.
GenerateActionItems ==
    /\ pc = "action_items"
    /\ \/ /\ Escapes /\ all_ok' = FALSE
          /\ calls' = Append(calls, [step |-> "action_items", budget |-> Null]) /\ UNCHANGED generic
       \/ /\ \E text \in ArrayTexts :
                /\ generic' = [generic EXCEPT !.action_items = ParseActionItems(text).kind]
                /\ all_ok' = (all_ok /\ StrictOk(text, "["))
                /\ calls' = Append(calls, [step |-> "action_items", budget |-> Null])
          /\ IF doc_type = "Contract"
             THEN pc' = "negotiation" /\ UNCHANGED response
             ELSE pc' = "done" /\ response' = GenericReport
    /\ WorkflowFrame

\* Lines 567-613: the negotiation points of a contract, then the report.
NegotiationPoints ==
    /\ pc = "negotiation"
    /\ \/ /\ has_grd /\ Escapes /\ UNCHANGED <<generic, all_ok, calls>>
       \/ /\ Escapes /\ all_ok' = FALSE
          /\ calls' = Append(calls, [step |-> "negotiation", budget |-> 5000]) /\ UNCHANGED generic
       \/ /\ \E text \in ObjectTexts :
                /\ generic' = [generic EXCEPT
                                  !.negotiation_points = ParseNegotiation(text).kind]
                /\ all_ok' = (all_ok /\ StrictOk(text, "{"))
                /\ calls' = Append(calls, [step |-> "negotiation", budget |-> 5000])
          /\ pc' = "done"
          /\ response' = GenericReport
    /\ WorkflowFrame

(***************************************************************************)
(* /api/analyze-edi on an uploaded file.  The text of the file is the      *)
(* sequence of its chunks, and a chunk is the set of the segment tags and  *)
(* keywords its text holds; the files of the model hold segment            *)
(* separators, five segments or more, and no container number.             *)
(***************************************************************************)
\* The chunks a file is made of: the message header, locations, equipment, other data
ChunkKinds == {{"BAPLIE", "BGM+945", "TDT+"}, {"LOC+"}, {"EQD+"}, {"NAD+"}}

EdiFiles == SeqsUpTo(ChunkKinds, MaxChunks) \ {<<>>}

\* The number of documents get_relevant_documents returns at most (the default of
\* the retriever vectordb.as_retriever() builds)
RetrieverK == 4

\* The keywords and tags of the text made of the chunks idx of a file
Tags(file, idx) == UNION {file[i] : i \in idx}

\* The chunk sets a query can return: the K nearest chunks, all when there are fewer
Retrievals(file) ==
    LET n == Len(file)
        size == IF n < RetrieverK THEN n ELSE RetrieverK
    IN  {idx \in SUBSET (1..n) : Cardinality(idx) = size}

\* EDIAnalyzer.detect_edi_format, for the tags of the model
DetectEdiFormat(tags) ==
    IF "BAPLIE" \in tags \/ "BGM+945" \in tags THEN "BAPLIE" ELSE "UNKNOWN"

\* EDIAnalyzer.validate_structure: the errors list
EdiErrors(tags, format_type) ==
    IF format_type = "BAPLIE"
    THEN (IF "BGM+945" \notin tags THEN <<"Missing BGM segment">> ELSE <<>>)
         \o (IF "LOC+" \notin tags THEN <<"Missing LOC segment">> ELSE <<>>)
         \o (IF "EQD+" \notin tags THEN <<"Missing EQD segment">> ELSE <<>>)
    ELSE <<>>

\* EDIAnalyzer.validate_structure: the warnings list
EdiWarnings(tags, format_type) ==
    IF format_type = "BAPLIE"
    THEN (IF "TDT+" \notin tags THEN <<"Missing TDT segment">> ELSE <<>>)
         \o <<"No valid container numbers found">>
         \o (IF "LOC+" \notin tags THEN <<"Missing stowage position information">>
             ELSE <<>>)
         \o <<"Missing weight information">>
    ELSE <<>>

\* EDIAnalyzer.validate_structure
ValidateStructure(tags, format_type) ==
    [isValid |-> EdiErrors(tags, format_type) = <<>>,
     errors |-> EdiErrors(tags, format_type),
     warnings |-> EdiWarnings(tags, format_type),
     formatType |-> format_type]

NoValidation == [isValid |-> TRUE, errors |-> <<>>, warnings |-> <<>>, formatType |-> "none"]

\* What the parsed reply of analyze_edi holds under "errors" and "warnings": nothing
\* (also when the reply does not parse), or one entry each.
EdiReplies ==
    {[errors |-> <<>>, warnings |-> <<>>],
     [errors |-> <<"data error">>, warnings |-> <<"data warning">>]}

NoEdiResponse ==
    [status |-> 0, formatType |-> "none", errors |-> <<>>, warnings |-> <<>>,
     validation |-> NoValidation]

EdiError == [NoEdiResponse EXCEPT !.status = 500]

EdiIdle ==
    /\ edi_content = <<>> /\ edi_pc = "idle"
    /\ edi_validation = NoValidation /\ edi_response = NoEdiResponse

EdiFrame == UNCHANGED <<parseVars, cascadeVars, runVars, registryVars, ingestVars>>

\* analyze_edi of app.py up to retriever = vectordb.as_retriever(): the format and the
\* structure of the whole text; 500 when the index cannot be built.
ValidateUpload ==
    /\ edi_pc = "start"
    /\ \/ /\ edi_pc' = "failed"
          /\ edi_response' = EdiError
          /\ UNCHANGED edi_validation
       \/ /\ edi_pc' = "indexed"
          /\ LET tags == Tags(edi_content, 1..Len(edi_content))
             IN  edi_validation' = ValidateStructure(tags, DetectEdiFormat(tags))
          /\ UNCHANGED edi_response
    /\ UNCHANGED edi_content
    /\ EdiFrame

\* analysis = analyzer.analyze_edi(retriever): format and structure of the retrieved
\* text, merged with the reply; then analysis["validation"] = validation and
\* analysis["formatType"] = format_type of the handler, and the answer.
AnalyzeEdi ==
    /\ edi_pc = "indexed"
    /\ \/ /\ edi_pc' = "failed"             \* the query or the inference call raises
          /\ edi_response' = EdiError
       \/ /\ edi_pc' = "done"
          /\ \E idx \in Retrievals(edi_content), analysis \in EdiReplies :
                LET tags == Tags(edi_content, idx)
                    format_type == DetectEdiFormat(tags)
                    validation == ValidateStructure(tags, format_type)
                IN  edi_response' =
                       [status |-> 200,
                        formatType |-> edi_validation.formatType,
                        errors |-> validation.errors \o analysis.errors,
                        warnings |-> validation.warnings \o analysis.warnings,
                        validation |-> edi_validation]
    /\ UNCHANGED <<edi_content, edi_validation>>
    /\ EdiFrame

(***************************************************************************)
(* The registries of app.py: retriever_cache and file_store are module     *)
(* globals, so each gunicorn worker process holds its own copy; a sync     *)
(* worker serves one request at a time.  A retriever is identified by the  *)
(* client whose request ingested the document behind it.                   *)
(***************************************************************************)
NumWorkers == 2

Workers == 1..NumWorkers

Clients == 1..NumClients

NoRetriever == 0

FileIds == {"active", "f1"}

Keys == FileIds

NoRequest ==
    [endpoint |-> "none", client |-> 0, input |-> "none", status |-> 0, got |-> NoRetriever]

Request(endpoint, c, input, status, got) ==
    [endpoint |-> endpoint, client |-> c, input |-> input, status |-> status, got |-> got]

IdleThread == [op |-> "idle", key |-> "none", got |-> NoRetriever]

RegistryIdle ==
    /\ retriever_cache = [w \in Workers |-> [k \in Keys |-> NoRetriever]]
    /\ file_store = [w \in Workers |-> [k \in Keys |-> NoRetriever]]
    /\ owned = [c \in Clients |-> FALSE]
    /\ last_request = NoRequest
    /\ threads = [c \in Clients |-> IdleThread]
    /\ last_write = [w \in Workers |-> [k \in Keys |-> NoRetriever]]
    /\ upload_text = <<>> /\ chunks = <<>>
    /\ EdiIdle

RegistryFrame == UNCHANGED <<parseVars, cascadeVars, runVars, ingestVars, ediVars>>

IngestEndpoints == {"upload", "fetch_url", "upload_multi"}

\* What a request brings: nothing (no file part, no file name, no URL), a file of an
\* unsupported type, a document whose text is empty or whitespace only, or text.
IngestInputs(endpoint) ==
    IF endpoint = "fetch_url"
    THEN {"missing", "blank", "text"}
    ELSE {"missing", "unsupported", "blank", "text"}

\* CharacterTextSplitter(...).create_documents([text]) yields no chunk for blank text,
\* and FAISS.from_documents raises on an empty chunk list or when embedding fails.
IndexBuildRaises(input, build_ok) == input = "blank" \/ ~build_ok

\* A plausible slip: /upload and /api/upload-multi without `if not text.strip()`,
\* and an index builder that accepts an empty chunk list.
IngestStatusUnchecked(endpoint, input, build_ok) ==
    IF input \in {"missing", "unsupported"} THEN 400
    ELSE IF ~build_ok THEN 500
    ELSE 200

\* The status an ingestion request ends with: the 400 returns of the handler, 500
\* from its except clause, 200 after the registry write.
IngestStatus(endpoint, input, build_ok) ==
    IF input \in {"missing", "unsupported"} THEN 400
    ELSE IF endpoint # "fetch_url" /\ input = "blank" THEN 400
    ELSE IF IndexBuildRaises(input, build_ok) THEN 500
    ELSE 200

\* A plausible slip: the entry is kept when the key is already taken (setdefault).
WriteEntryIfAbsent(registry, w, key, c) ==
    IF registry[w][key] = NoRetriever THEN [registry EXCEPT ![w][key] = c] ELSE registry

\* retriever_cache[key] = vectordb.as_retriever(): one dict assignment of a built index
WriteEntry(registry, w, key, c) == [registry EXCEPT ![w][key] = c]

\* Whether embedding succeeds matters only when there is text to embed.
BuildOutcomes(input) == IF input = "text" THEN BOOLEAN ELSE {TRUE}

\* One ingestion request served from start to end by worker w.
Ingest(endpoint, w, c, key, input, build_ok) ==
    LET status == IngestStatus(endpoint, input, build_ok)
    IN  /\ last_request' = Request(endpoint, c, input, status, NoRetriever)
        /\ IF status = 200
           THEN /\ retriever_cache' = WriteEntry(retriever_cache, w, key, c)
                /\ last_write' = [last_write EXCEPT ![w][key] = c]
                /\ file_store' = IF endpoint = "upload_multi"
                                 THEN [file_store EXCEPT ![w][key] = c]
                                 ELSE file_store
                /\ owned' = [owned EXCEPT ![c] = TRUE]
           ELSE UNCHANGED <<retriever_cache, last_write, file_store, owned>>

\* /upload: retriever_cache["active"] = vectordb.as_retriever()
Upload(w, c) ==
    /\ \E input \in IngestInputs("upload") : \E build_ok \in BuildOutcomes(input) :
          Ingest("upload", w, c, "active", input, build_ok)
    /\ UNCHANGED threads
    /\ RegistryFrame

\* /fetch-url: retriever_cache["active"] = vectordb.as_retriever()
FetchUrl(w, c) ==
    /\ \E input \in IngestInputs("fetch_url") : \E build_ok \in BuildOutcomes(input) :
          Ingest("fetch_url", w, c, "active", input, build_ok)
    /\ UNCHANGED threads
    /\ RegistryFrame

\* /api/upload-multi: retriever_cache[file_id] = ...; file_store[file_id] = {...}
\* file_id is the form field of the request, or a fresh uuid prefix without it.
UploadMulti(w, c, file_id) ==
    /\ \E input \in IngestInputs("upload_multi") : \E build_ok \in BuildOutcomes(input) :
          Ingest("upload_multi", w, c, file_id, input, build_ok)
    /\ UNCHANGED threads
    /\ RegistryFrame

\* /api/business-docs/analyze: retriever = retriever_cache.get("active")
BusinessDocsAnalyze(w, c) ==
    /\ LET retriever == retriever_cache[w]["active"]
       IN  \/ /\ retriever = NoRetriever
              /\ last_request' = Request("analyze", c, "none", 400, NoRetriever)
           \/ /\ retriever # NoRetriever      \* OPENAI_API_KEY not configured
              /\ last_request' = Request("analyze", c, "none", 500, NoRetriever)
           \/ /\ retriever # NoRetriever      \* the analyzer raised
              /\ last_request' = Request("analyze", c, "none", 500, retriever)
           \/ /\ retriever # NoRetriever
              /\ last_request' = Request("analyze", c, "none", 200, retriever)
    /\ UNCHANGED <<retriever_cache, file_store, owned, threads, last_write>>
    /\ RegistryFrame

\* What the body of a request is to request.json: a JSON object, or something
\* request.json / data.get raises on (no JSON body, a JSON array, null).
Bodies == {"object", "malformed"}

\* A plausible slip: the API key is checked before the registry is read.
AskChecksKeyFirst(w, c) ==
    /\ \E body \in Bodies, key_configured \in BOOLEAN :
          LET retriever == retriever_cache[w]["active"]
          IN  IF body = "malformed"
              THEN last_request' = Request("ask", c, body, 500, NoRetriever)
              ELSE IF ~key_configured
              THEN last_request' = Request("ask", c, body, 500, NoRetriever)
              ELSE IF retriever = NoRetriever
              THEN last_request' = Request("ask", c, body, 400, NoRetriever)
              ELSE \E status \in {200, 500} :
                      last_request' = Request("ask", c, body, status, retriever)
    /\ UNCHANGED <<retriever_cache, file_store, owned, threads, last_write>>
    /\ RegistryFrame

\* /ask: query = request.json.get("question"); retriever = retriever_cache.get("active");
\* 400 without one, 500 without OPENAI_API_KEY, then the chain (500 when it raises).
Ask(w, c) ==
    /\ \E body \in Bodies, key_configured \in BOOLEAN :
          LET retriever == retriever_cache[w]["active"]
          IN  IF body = "malformed"
              THEN last_request' = Request("ask", c, body, 500, NoRetriever)
              ELSE IF retriever = NoRetriever
              THEN last_request' = Request("ask", c, body, 400, NoRetriever)
              ELSE IF ~key_configured
              THEN last_request' = Request("ask", c, body, 500, NoRetriever)
              ELSE \E status \in {200, 500} :
                      last_request' = Request("ask", c, body, status, retriever)
    /\ UNCHANGED <<retriever_cache, file_store, owned, threads, last_write>>
    /\ RegistryFrame

(***************************************************************************)
(* The same handlers run by threads of one process (app.run at the end of  *)
(* app.py starts Flask's threaded server): a request can be overtaken      *)
(* between building its index and assigning it, between the two            *)
(* assignments of /api/upload-multi, and between reading the retriever     *)
(* and the end of the analysis.                                            *)
(***************************************************************************)
MainProcess == 1

\* An ingestion handler up to vectordb = FAISS.from_documents(docs, embeddings)
BeginIngest(c, endpoint, key) ==
    /\ threads[c] = IdleThread
    /\ \E input \in IngestInputs(endpoint) : \E build_ok \in BuildOutcomes(input) :
          LET status == IngestStatus(endpoint, input, build_ok)
          IN  IF status = 200
              THEN /\ threads' = [threads EXCEPT ![c] =
                          [op |-> IF endpoint = "upload_multi" THEN "built_multi" ELSE "built",
                           key |-> key, got |-> NoRetriever]]
                   /\ UNCHANGED last_request
              ELSE /\ last_request' = Request(endpoint, c, input, status, NoRetriever)
                   /\ UNCHANGED threads
    /\ UNCHANGED <<retriever_cache, file_store, owned, last_write>>
    /\ RegistryFrame

\* retriever_cache[...] = vectordb.as_retriever(); /upload and /fetch-url then answer
WriteCache(c) ==
    /\ threads[c].op \in {"built", "built_multi"}
    /\ retriever_cache' = WriteEntry(retriever_cache, MainProcess, threads[c].key, c)
    /\ last_write' = [last_write EXCEPT ![MainProcess][threads[c].key] = c]
    /\ owned' = [owned EXCEPT ![c] = TRUE]
    /\ threads' = [threads EXCEPT ![c] =
                      IF threads[c].op = "built_multi"
                      THEN [threads[c] EXCEPT !.op = "cached_multi"]
                      ELSE IdleThread]
    /\ UNCHANGED <<file_store, last_request>>
    /\ RegistryFrame

\* file_store[file_id] = {...} of /api/upload-multi, then the answer
WriteFileStore(c) ==
    /\ threads[c].op = "cached_multi"
    /\ file_store' = [file_store EXCEPT ![MainProcess][threads[c].key] = c]
    /\ threads' = [threads EXCEPT ![c] = IdleThread]
    /\ UNCHANGED <<retriever_cache, owned, last_request, last_write>>
    /\ RegistryFrame

\* retriever = retriever_cache.get("active"); 400 without one
FetchRetriever(c) ==
    /\ threads[c] = IdleThread
    /\ LET retriever == retriever_cache[MainProcess]["active"]
       IN  IF retriever = NoRetriever
           THEN /\ last_request' = Request("analyze", c, "none", 400, NoRetriever)
                /\ UNCHANGED threads
           ELSE /\ threads' = [threads EXCEPT ![c] =
                                  [op |-> "analyze", key |-> "active", got |-> retriever]]
                /\ UNCHANGED last_request
    /\ UNCHANGED <<retriever_cache, file_store, owned, last_write>>
    /\ RegistryFrame

\* The local variable `retriever` of the handler
HeldRetriever(c) == threads[c].got

\* analysis = analyzer.analyze_business_doc(retriever); return jsonify(analysis)
CompleteAnalysis(c) ==
    /\ threads[c].op = "analyze"
    /\ \E status \in {200, 500} :
          last_request' = Request("analyze", c, "none", status, HeldRetriever(c))
    /\ threads' = [threads EXCEPT ![c] = IdleThread]
    /\ UNCHANGED <<retriever_cache, file_store, owned, last_write>>
    /\ RegistryFrame

(***************************************************************************)
(* Overall risk level: ContractAnalyzer.analyze_contract derives it from   *)
(* the risk list of the reply, WorkflowProcessor.produce_risk_analysis     *)
(* returns the reply's own.                                                *)
(***************************************************************************)
\* The riskLevel / severity / overallRiskLevel strings a reply may hold
RiskLevels == {"HIGH", "MEDIUM", "LOW", "high", "medium", "low"}

\* The risk list and the overall level written in a reply
RiskPayloads == [risks : SeqsUpTo(RiskLevels, MaxRisks), overallRiskLevel : RiskLevels]

\* The reply is an object without these keys
EmptyRiskPayload == [risks |-> <<>>, overallRiskLevel |-> "absent"]

\* ContractAnalyzer._calculate_overall_risk
CalculateOverallRisk(risks) ==
    LET Upper(l) == CASE l = "high" -> "HIGH" [] l = "medium" -> "MEDIUM"
                      [] l = "low" -> "LOW" [] OTHER -> l
        count(level) == Cardinality({i \in 1..Len(risks) : Upper(risks[i]) = level})
    IN  IF risks = <<>> THEN "LOW"
        ELSE IF count("HIGH") >= 2 THEN "HIGH"
        ELSE IF count("HIGH") >= 1 \/ count("MEDIUM") >= 3 THEN "MEDIUM"
        ELSE "LOW"

\* analyze_contract, lines 220-281: the reply parsed as the comprehensive reply of the
\* invoice is, the report's riskAssessment and overallRiskLevel; any exception of the
\* try block gives the fallback report.
AnalyzeContract ==
    /\ parser = "none"
    /\ parser' = "analyze_contract"
    /\ \E failed \in BOOLEAN :
          LET r == IF failed THEN Raised ELSE ParseComprehensive(reply)
              d == IF r.kind = "parsed" THEN reply_data ELSE EmptyRiskPayload
          IN  parsed' = IF r.kind = "raised"
                        THEN [kind |-> "raised", risks |-> <<>>, overallRiskLevel |-> "LOW"]
                        ELSE [kind |-> r.kind, risks |-> d.risks,
                              overallRiskLevel |-> CalculateOverallRisk(d.risks)]
    /\ UNCHANGED <<reply, reply_data, extracted_data, cascadeVars, runVars, registryVars,
                   ingestVars, ediVars>>

\* produce_risk_analysis: the parsed reply is returned as it is, the fallback dict
\* otherwise; chain.invoke is outside the try, its exception leaves the routine.
ProduceRiskReport ==
    /\ parser = "none"
    /\ parser' = "produce_risk_analysis"
    /\ \E failed \in BOOLEAN :
          parsed' = IF failed
                    THEN [kind |-> "escaped", risks |-> <<>>, overallRiskLevel |-> "absent"]
                    ELSE IF ParseRiskAnalysis(reply).kind = "parsed"
                    THEN [kind |-> "parsed", risks |-> reply_data.risks,
                          overallRiskLevel |-> reply_data.overallRiskLevel]
                    ELSE [kind |-> "fallback", risks |-> <<>>, overallRiskLevel |-> "medium"]
    /\ UNCHANGED <<reply, reply_data, extracted_data, cascadeVars, runVars, registryVars,
                   ingestVars, ediVars>>

(***************************************************************************)
(* SalarySlipAnalyzer.analyze_salary_slip: the totals recomputed from the  *)
(* components of the reply and compared with the totals of the reply.      *)
(***************************************************************************)
\* abs(...) > 1 of the two comparisons, in thousandths
PayrollTolerance == 1000

\* A discrepancy the model lists in the calculationErrors array of its reply.
Reported == [title |-> "Reported", computed |-> 0, stated |-> 0, diff |-> 0]

\* get("calculationErrors", []) of a reply without the key
NoList == [present |-> FALSE, list |-> <<>>]

\* The reply as the prompt asks for it: the components, the model's own totals
\* ("totals"), the totals stated in the document ("documentTotals") and the
\* calculationErrors array (NoList when the reply has no such key).
SalaryPayloads ==
    [earnings : SeqsUpTo({30000, 30500, CurrencyString(30000)}, MaxItems),
     deductions : SeqsUpTo({5000}, MaxTaxes),
     totalEarnings : {Null, 0, 30000, 30500, 62000},
     netPay : {Null, 25000, 27000},
     totalEarningsFromDoc : {Null, 30000, 30500},
     netPayFromDoc : {Null, 25000},
     calculationErrors : {NoList, [present |-> TRUE, list |-> <<>>],
                          [present |-> TRUE, list |-> <<Reported>>]}]

\* json.loads found no object: extracted_data = {}
EmptySalaryPayload ==
    [earnings |-> <<>>, deductions |-> <<>>, totalEarnings |-> Null, netPay |-> Null,
     totalEarningsFromDoc |-> Null, netPayFromDoc |-> Null,
     calculationErrors |-> NoList]

\* Lines 126-199.  Only the amounts that are numbers are summed; doc_totals is the
\* "totals" object of the reply, which has no ...FromDoc key, so the stated values are
\* totals.totalEarnings and totals.netPay (the computed value when the key is absent);
\* a stated value of 0 or null is skipped by `if doc_earnings_num and ...`.  The
\* findings are appended to extracted_data.get("calculationErrors", []).
SalaryMistakes(d) ==
    LET IsNumber(x) == x >= 0
        earnings == Sum(SelectSeq(d.earnings, IsNumber))
        deductions == Sum(SelectSeq(d.deductions, IsNumber))
        net == earnings - deductions
    IN  d.calculationErrors.list
        \o
        (IF d.totalEarnings > 0 /\ Abs(earnings - d.totalEarnings) > PayrollTolerance
         THEN <<Finding("Total Earnings Mismatch", earnings, d.totalEarnings)>>
         ELSE <<>>)
        \o (IF d.netPay > 0 /\ Abs(net - d.netPay) > PayrollTolerance
            THEN <<Finding("Net Pay Calculation Error", net, d.netPay)>>
            ELSE <<>>)

\* except Exception as e: ... "mistakes": [{"title": "Analysis Error", ...}]
AnalysisError == <<[title |-> "Analysis Error", computed |-> 0, stated |-> 0, diff |-> 0]>>

\* analyze_salary_slip, lines 80-230: an inference or retrieval call of the try block
\* that raises, or a reply json.loads rejects, gives the fallback report; so does the
\* .format call of _analyze_tax_flags_optimized (line 173, before the mistakes are
\* computed) when it raises.
AnalyzeSalarySlip ==
    /\ parser = "none"
    /\ parser' = "salary_slip"
    /\ \E failed \in BOOLEAN :
          LET r == IF failed THEN Raised ELSE ParseComprehensive(reply)
              d == IF r.kind = "parsed" THEN reply_data ELSE EmptySalaryPayload
              raises == r.kind = "raised" \/ FormatRaises(TaxTemplateFields, TaxFormatArgs)
          IN  /\ parsed' = r
              /\ calculation_errors' = IF raises THEN AnalysisError ELSE SalaryMistakes(d)
              \* mistakes is the list object held by extracted_data when the key is there
              /\ extracted_data' =
                    IF ~raises /\ d.calculationErrors.present
                    THEN [d EXCEPT !.calculationErrors.list = SalaryMistakes(d)]
                    ELSE d
    /\ UNCHANGED <<reply, reply_data, cascadeVars, doc_type, call_failed, financial_info,
                   line_items_info, tables, generic, response, payment_fault, all_ok, calls,
                   tables_content,
                   registryVars,
                   ingestVars, ediVars>>

(***************************************************************************)
(* CharacterTextSplitter(chunk_size=1000, chunk_overlap=100)               *)
(* .create_documents([text]) of the ingestion endpoints.  The splitter     *)
(* cuts the text at its separator "\n\n" and merges the paragraphs into    *)
(* documents.  A text is the sequence of the lengths of its paragraphs     *)
(* (none empty, none with white space at its ends); a document is the span *)
(* of character positions of the text it holds.                            *)
(***************************************************************************)
ChunkSize == 1000

ChunkOverlap == 100

\* len("\n\n"), the separator the splitter is constructed with by default
SeparatorLen == 2

\* len(separator.join(paragraphs lo..hi))
JoinLen(t, lo, hi) ==
    IF lo > hi THEN 0 ELSE Sum(SubSeq(t, lo, hi)) + SeparatorLen * (hi - lo)

\* The merge loop of the splitter at paragraph d with paragraphs lo..d-1 pending:
\* when paragraph d does not fit, the pending ones become a document and are dropped
\* from the front while they are longer than the overlap or d still does not fit.
RECURSIVE MergeSplits(_, _, _, _)
MergeSplits(t, d, lo, out) ==
    LET Span(a, b) ==
            [first |-> JoinLen(t, 1, a - 1) + (IF a > 1 THEN SeparatorLen ELSE 0) + 1,
             last |-> JoinLen(t, 1, b)]
        Over(l) ==
            JoinLen(t, l, d - 1) + t[d] + (IF l < d THEN SeparatorLen ELSE 0) > ChunkSize
        Pops(l) ==
            JoinLen(t, l, d - 1) > ChunkOverlap \/ (Over(l) /\ JoinLen(t, l, d - 1) > 0)
        kept == CHOOSE l \in lo..d : ~Pops(l) /\ \A m \in lo..(l - 1) : Pops(m)
    IN  IF d > Len(t)
        THEN IF lo <= Len(t) THEN Append(out, Span(lo, Len(t))) ELSE out
        ELSE IF Over(lo) /\ lo < d
        THEN MergeSplits(t, d + 1, kept, Append(out, Span(lo, d - 1)))
        ELSE MergeSplits(t, d + 1, lo, out)

\* docs = CharacterTextSplitter(chunk_size=1000, chunk_overlap=100).create_documents([text])
SplitText ==
    /\ chunks = <<>>
    /\ chunks' = MergeSplits(upload_text, 1, 1, <<>>)
    /\ UNCHANGED <<upload_text, parseVars, cascadeVars, runVars, registryVars, ediVars>>

(***************************************************************************)
(* Specifications                                                          *)
(***************************************************************************)
ParseIdle ==
    /\ reply = <<>> /\ reply_data = EmptyPayload /\ parser = "none" /\ parsed = NotParsed
    /\ extracted_data = EmptyPayload

RunIdle ==
    /\ doc_type = "none" /\ call_failed = FALSE
    /\ financial_info = EmptyFinancialInfo /\ line_items_info = EmptyLineItemsInfo
    /\ calculation_errors = <<>> /\ tables = <<>> /\ generic = NoGeneric
    /\ response = NoResponse /\ payment_fault = FALSE /\ all_ok = TRUE /\ calls = <<>>
    /\ tables_content = 0

CascadeIdle ==
    /\ analyzer = "none" /\ has_grd = FALSE /\ pc = "idle" /\ qi = 0
    /\ content = 0 /\ docs = NoDocs /\ longest = 0

\* One request to /api/business-docs/analyze with a document uploaded.
Init ==
    /\ ParseIdle
    /\ analyzer = "invoice"
    /\ has_grd \in BOOLEAN
    /\ pc = "detect"
    /\ qi = 1 /\ content = 0 /\ docs = NoDocs /\ longest = 0
    /\ doc_type = "none" /\ call_failed = FALSE
    /\ financial_info = EmptyFinancialInfo /\ line_items_info = EmptyLineItemsInfo
    /\ calculation_errors = <<>> /\ tables = <<>> /\ generic = NoGeneric
    /\ response = NoResponse
    /\ payment_fault = FALSE
    /\ all_ok = TRUE
    /\ calls = <<>>
    /\ tables_content = 0
    /\ RegistryIdle

Next ==
    \/ Detect
    \/ TargetedQuery
    \/ BroadQuery
    \/ VectorSearch
    \/ CheckContent
    \/ ComprehensiveCall
    \/ VerifyInvoice
    \/ FormatRiskPrompt
    \/ ExtractTables
    \/ ExtractInsights
    \/ ProduceRiskAnalysis
    \/ GenerateActionItems
    \/ NegotiationPoints

Spec == Init /\ [][Next]_vars

\* The retrieval cascade of either analyzer, alone.
InitRetrieve ==
    /\ analyzer \in {"invoice", "contract"}
    /\ has_grd \in BOOLEAN
    /\ pc = CascadeStart(has_grd)
    /\ qi = 1
    /\ content = 0
    /\ docs = NoDocs
    /\ longest = 0
    /\ ParseIdle
    /\ RunIdle
    /\ RegistryIdle

NextRetrieve == TargetedQuery \/ BroadQuery \/ VectorSearch

SpecRetrieve == InitRetrieve /\ [][NextRetrieve]_vars

\* Every parsing routine applied to every reply.
InitParse ==
    /\ reply \in Replies
    /\ reply_data = EmptyPayload
    /\ parser = "none"
    /\ parsed = NotParsed
    /\ extracted_data = EmptyPayload
    /\ CascadeIdle
    /\ RunIdle
    /\ RegistryIdle

Apply(name, out) ==
    /\ parser = "none"
    /\ parser' = name
    /\ parsed' = out
    /\ UNCHANGED <<reply, reply_data, extracted_data, cascadeVars, runVars, registryVars,
                   ingestVars, ediVars>>

ApplyExtractInsights   == Apply("extract_insights", ParseInsights(reply))
ApplyRiskAnalysis      == Apply("produce_risk_analysis", ParseRiskAnalysis(reply))
ApplyExtractTables     == Apply("extract_tables", ParseTablesText(reply))
ApplyComprehensive     == Apply("invoice_comprehensive", ParseComprehensive(reply))
ApplyInvoiceRisk       == Apply("invoice_risk", ParseInvoiceRisk(reply))
ApplyInvoicePayment    == Apply("invoice_payment", ParseInvoicePayment(reply))

NextParse ==
    \/ ApplyExtractInsights
    \/ ApplyRiskAnalysis
    \/ ApplyExtractTables
    \/ ApplyComprehensive
    \/ ApplyInvoiceRisk
    \/ ApplyInvoicePayment

SpecParse == InitParse /\ [][NextParse]_vars

\* extract_tables' parsing and sample-data check applied to every table reply.
InitTables ==
    /\ \E ts \in TablePayloads, lead \in Wrappers, trail \in Wrappers, cut \in BOOLEAN :
          /\ reply = TableReplyText(ts, lead, trail, cut)
          /\ reply_data = ts
    /\ parser = "none"
    /\ parsed = NotParsed
    /\ extracted_data = EmptyPayload
    /\ CascadeIdle
    /\ RunIdle
    /\ RegistryIdle

ApplyTablesReply ==
    /\ parser = "none"
    /\ parser' = "extract_tables"
    /\ parsed' = ParseTablesText(reply)
    /\ tables' = TablesFromReply(reply, reply_data)
    /\ UNCHANGED <<reply, reply_data, extracted_data, cascadeVars, doc_type, call_failed,
                   financial_info,
                   line_items_info, calculation_errors, generic, response,
                   payment_fault, all_ok, calls, tables_content, registryVars,
                   ingestVars, ediVars>>

NextTables == ApplyTablesReply

SpecTables == InitTables /\ [][NextTables]_vars

\* The verification of a comprehensive reply whose amounts are numbers or strings.
InitAmounts ==
    /\ reply = <<"{", "v", "}">>
    /\ reply_data \in InvoicePayloads \cup CurrencyPayloads
    /\ parser = "none"
    /\ parsed = NotParsed
    /\ extracted_data = EmptyPayload
    /\ analyzer = "invoice" /\ has_grd = FALSE /\ pc = "verify" /\ qi = 0
    /\ content = MinInvoiceLen /\ docs = NoDocs /\ longest = MinInvoiceLen
    /\ RunIdle
    /\ RegistryIdle

NextAmounts == VerifyInvoice \/ FormatRiskPrompt

SpecAmounts == InitAmounts /\ [][NextAmounts]_vars

\* analyze_salary_slip on every reply to its prompt.
InitSalary ==
    /\ reply \in {<<"{", "v", "}">>, <<"x", "{", "v", "}">>, <<"{", "v">>, <<"x">>}
    /\ IF ParseComprehensive(reply).kind = "parsed"
       THEN reply_data \in SalaryPayloads
       ELSE reply_data = EmptySalaryPayload
    /\ parser = "none"
    /\ parsed = NotParsed
    /\ extracted_data = EmptyPayload
    /\ CascadeIdle
    /\ RunIdle
    /\ RegistryIdle

NextSalary == AnalyzeSalarySlip

SpecSalary == InitSalary /\ [][NextSalary]_vars

\* The risk routines applied to every reply that holds a risk list and a level.
InitRisk ==
    /\ reply \in ObjectTexts
    /\ IF JsonLoadsOk(RegexSearch(reply, "{")) /\ "v" \in Range(reply)
       THEN reply_data \in RiskPayloads
       ELSE reply_data = EmptyRiskPayload
    /\ parser = "none"
    /\ parsed = NotParsed
    /\ extracted_data = EmptyPayload
    /\ CascadeIdle
    /\ RunIdle
    /\ RegistryIdle

NextRisk == AnalyzeContract \/ ProduceRiskReport

SpecRisk == InitRisk /\ [][NextRisk]_vars

\* The splitting step of /upload, /fetch-url and /api/upload-multi on every text.
InitChunks ==
    /\ upload_text \in SeqsUpTo({40, 60, 500, 950, 1200}, MaxPieces) \ {<<>>}
    /\ chunks = <<>>
    /\ retriever_cache = [w \in Workers |-> [k \in Keys |-> NoRetriever]]
    /\ file_store = [w \in Workers |-> [k \in Keys |-> NoRetriever]]
    /\ owned = [c \in Clients |-> FALSE]
    /\ last_request = NoRequest
    /\ threads = [c \in Clients |-> IdleThread]
    /\ last_write = [w \in Workers |-> [k \in Keys |-> NoRetriever]]
    /\ EdiIdle
    /\ ParseIdle
    /\ CascadeIdle
    /\ RunIdle

NextChunks == SplitText

SpecChunks == InitChunks /\ [][NextChunks]_vars

\* Requests of the clients, each served by one of the workers.
InitRegistry ==
    /\ RegistryIdle
    /\ ParseIdle
    /\ CascadeIdle
    /\ RunIdle

NextRegistry ==
    \E w \in Workers, c \in Clients :
        \/ Upload(w, c)
        \/ FetchUrl(w, c)
        \/ \E file_id \in FileIds : UploadMulti(w, c, file_id)
        \/ BusinessDocsAnalyze(w, c)
        \/ Ask(w, c)

SpecRegistry == InitRegistry /\ [][NextRegistry]_vars

\* /api/analyze-edi on every file of the model.
InitEdi ==
    /\ edi_content \in EdiFiles
    /\ edi_pc = "start"
    /\ edi_validation = NoValidation
    /\ edi_response = NoEdiResponse
    /\ retriever_cache = [w \in Workers |-> [k \in Keys |-> NoRetriever]]
    /\ file_store = [w \in Workers |-> [k \in Keys |-> NoRetriever]]
    /\ owned = [c \in Clients |-> FALSE]
    /\ last_request = NoRequest
    /\ threads = [c \in Clients |-> IdleThread]
    /\ last_write = [w \in Workers |-> [k \in Keys |-> NoRetriever]]
    /\ upload_text = <<>> /\ chunks = <<>>
    /\ ParseIdle
    /\ CascadeIdle
    /\ RunIdle

NextEdi == ValidateUpload \/ AnalyzeEdi

SpecEdi == InitEdi /\ [][NextEdi]_vars

\* Requests served by the threads of one process.
NextThreaded ==
    \E c \in Clients :
        \/ \E key \in {"active"} : BeginIngest(c, "upload", key)
        \/ \E key \in {"active"} : BeginIngest(c, "fetch_url", key)
        \/ \E key \in FileIds : BeginIngest(c, "upload_multi", key)
        \/ WriteCache(c)
        \/ WriteFileStore(c)
        \/ FetchRetriever(c)
        \/ CompleteAnalysis(c)

SpecThreaded == InitRegistry /\ [][NextThreaded]_vars

(***************************************************************************)
(* Properties                                                              *)
(***************************************************************************)
Terminal == pc \in {"done", "failed"}

\* The comprehensive reply was parsed and its payload went through verification.
Verified == parser = "invoice_comprehensive" /\ parsed.kind = "parsed"

\* subtotal + taxes - discount + shipping - stated total, from the payload itself
TotalDelta(d) ==
    (OrZero(d.subtotal) + Sum(d.taxBreakdown) + OrZero(d.shippingCharges))
        - (OrZero(d.discount) + OrZero(d.totalAmount))

\* sum of the line-item prices - subtotal
LineDelta(d) == Sum(d.lineItems) - OrZero(d.subtotal)

TotalMismatch == "Total Amount Calculation Mismatch"

LineMismatch == "Line Items Total Mismatch"

\* C1: when the payment-terms call fails after the financial and line-item extraction
\* succeeded, the request still ends with a report (status 200) whose financialDetails
\* and lineItemsAnalysis hold the extracted data and whose payment section is marked
\* as failed.
C1_PartialFailureContainment ==
    (Terminal /\ Verified /\ payment_fault) =>
        /\ response.status = 200
        /\ response.financialDetails = financial_info
        /\ response.lineItemsAnalysis = line_items_info
        /\ response.paymentAnalysis = "failed"

\* C2: a run on a document classified as Invoice, with at least 20 characters of
\* retrieved content and only well-formed replies, ends in Done and never in Failed.
C2_OrchestratorProgress ==
    (Terminal /\ doc_type = "Invoice" /\ content >= MinInvoiceLen /\ all_ok) => pc = "done"

\* C3 as stated: a reconciled invoice yields no calculation-error finding, and an
\* invoice that differs from a reconciled one in a single component (a tax, the
\* discount, the shipping or the stated total; one line-item price; the subtotal) by
\* more than 0.01 yields exactly one finding, carrying the difference.
C3_ReconciliationFindingsCount ==
    Verified =>
        LET d  == reply_data
            td == TotalDelta(d)
            ld == LineDelta(d)
        IN  /\ (td = 0 /\ ld = 0) => calculation_errors = <<>>
            /\ (ld = 0 /\ Abs(td) > Epsilon) =>
                  /\ Len(calculation_errors) = 1
                  /\ calculation_errors[1].diff = Abs(td)
            /\ (td = 0 /\ Abs(ld) > Epsilon /\ d.lineItems # <<>>) =>
                  /\ Len(calculation_errors) = 1
                  /\ calculation_errors[1].diff = Abs(ld)
            /\ (td + ld = 0 /\ Abs(td) > Epsilon) =>
                  /\ Len(calculation_errors) = 1
                  /\ calculation_errors[1].diff = Abs(td)

\* C3 amended: a reconciled invoice yields no finding; a change of more than 0.01 in a
\* tax, the discount, the shipping or the stated total yields exactly the total
\* mismatch, a change in one line-item price exactly the line-items mismatch, and a
\* change in the subtotal yields the total mismatch followed, when the invoice has
\* line items, by the line-items mismatch: two findings, each with the difference.
C3_ReconciliationFindingsAmended ==
    Verified =>
        LET d  == reply_data
            td == TotalDelta(d)
            ld == LineDelta(d)
        IN  /\ (td = 0 /\ ld = 0) => calculation_errors = <<>>
            /\ (ld = 0 /\ Abs(td) > Epsilon) =>
                  /\ Len(calculation_errors) = 1
                  /\ calculation_errors[1].title = TotalMismatch
                  /\ calculation_errors[1].diff = Abs(td)
            /\ (td = 0 /\ Abs(ld) > Epsilon /\ d.lineItems # <<>>) =>
                  /\ Len(calculation_errors) = 1
                  /\ calculation_errors[1].title = LineMismatch
                  /\ calculation_errors[1].diff = Abs(ld)
            /\ (td + ld = 0 /\ Abs(td) > Epsilon) =>
                  /\ Len(calculation_errors) = IF d.lineItems # <<>> THEN 2 ELSE 1
                  /\ calculation_errors[1].title = TotalMismatch
                  /\ calculation_errors[1].diff = Abs(td)
                  /\ d.lineItems # <<>> =>
                        /\ calculation_errors[2].title = LineMismatch
                        /\ calculation_errors[2].diff = Abs(ld)

\* The subtotal of an invoice with line items is off by more than 0.01: two findings.
C3_Witness ==
    /\ Verified
    /\ reply_data.lineItems # <<>>
    /\ TotalDelta(reply_data) + LineDelta(reply_data) = 0
    /\ Abs(TotalDelta(reply_data)) > Epsilon
    /\ Len(calculation_errors) = 2

\* C4: the findings hold a "Total Amount Calculation Mismatch" exactly when
\* |subtotal + taxes - discount + shipping - stated total| > 0.01, at most once, and
\* the finding carries the computed total, the stated total and their difference.
C4_TotalReconciliationRule ==
    (parser = "invoice_comprehensive" /\ parsed.kind \in {"parsed", "empty"}) =>
        LET d    == IF parsed.kind = "parsed" THEN reply_data ELSE EmptyPayload
            idx  == {i \in 1..Len(calculation_errors) :
                        calculation_errors[i].title = TotalMismatch}
        IN  /\ (idx # {}) <=> (Abs(TotalDelta(d)) > Epsilon)
            /\ Cardinality(idx) <= 1
            /\ \A i \in idx :
                  /\ calculation_errors[i].stated = OrZero(d.totalAmount)
                  /\ calculation_errors[i].computed = TotalDelta(d) + OrZero(d.totalAmount)
                  /\ calculation_errors[i].diff = Abs(TotalDelta(d))

\* Line items 2 x 10, tax 2, stated total 25: the mismatch finding with difference 3.
C4_Witness ==
    /\ Verified
    /\ reply_data.totalAmount = 25000
    /\ \E i \in 1..Len(calculation_errors) :
          /\ calculation_errors[i].title = TotalMismatch
          /\ calculation_errors[i].computed = 22000
          /\ calculation_errors[i].diff = 3000

\* C5 as stated: whatever the queries of the cascade return, the content and the
\* document list it ends with are both non-empty.
C5_RetrievalNonEmpty ==
    pc = "retrieved" => (content > 0 /\ docs # NoDocs)

\* C5 amended: the cascade ends with non-empty content and a non-empty document list
\* exactly when one of the queries it ran returned documents with non-blank text;
\* when every query raised or returned nothing it ends with "" and [].
C5_RetrievalNonEmptyAmended ==
    pc = "retrieved" =>
        /\ longest > 0 => (content > 0 /\ docs # NoDocs /\ docs.len = content)
        /\ longest = 0 => (content = 0 /\ docs = NoDocs)

\* A late query returns documents after the earlier ones raised or returned nothing.
C5_Witness ==
    /\ pc = "retrieved"
    /\ has_grd
    /\ docs.src = "vector"
    /\ content > 0

\* C6: when any row of any table of a parsed reply holds a fabrication marker,
\* extract_tables returns the empty list.
C6_PlaceholderRejection ==
    (/\ parser = "extract_tables"
     /\ parsed.kind = "parsed"
     /\ \E t \in 1..Len(reply_data) : \E r \in 1..Len(reply_data[t].rows) :
           HasSamplePattern(reply_data[t].rows[r]))
        => tables = <<>>

\* extract_tables on a reply that is exactly the empty JSON array
EmptySuccessTables == TablesFromReply(<<"[", "]">>, <<>>)

\* C7: when the reply of a section cannot be parsed, the section's value differs from
\* the value a successful extraction that found nothing gives (here: the tables).
C7_FailureDistinguishable ==
    (parser = "extract_tables" /\ parsed.kind = "fallback") => tables # EmptySuccessTables

\* C8: every invoice request that reaches its end returns the key set of the
\* insufficient-content report.
C8_StableReportShape ==
    (Terminal /\ doc_type = "Invoice") => response.keys = ErrorReportKeys

RootOf(name) == IF name = "extract_tables" THEN "[" ELSE "{"

\* C9: when the strict parse of the whole reply fails and the bracket-delimited
\* substring parses, the routine returns that parse; the fallback, raised or empty
\* result is used only when both stages fail.
C9_TolerantTwoStageParse ==
    parser # "none" =>
        LET open == RootOf(parser)
            m    == RegexSearch(reply, open)
        IN  /\ (~StrictOk(reply, open) /\ m # <<>> /\ JsonLoadsOk(m)) => parsed = Parsed(m)
            /\ parsed.kind \in {"fallback", "raised", "empty"} =>
                  (~StrictOk(reply, open) /\ (m = <<>> \/ ~JsonLoadsOk(m)))

\* C10: an analysis issued by a client that ingested a document is never run on the
\* retriever of a document ingested by another client's request.
C10_CrossDocumentIsolation ==
    (/\ last_request.endpoint = "analyze"
     /\ last_request.got # NoRetriever
     /\ owned[last_request.client])
        => last_request.got = last_request.client

C13_InsufficientRetrievalNonFatal ==
    (Terminal /\ doc_type = "Invoice" /\ content < SufficientLen) =>
        /\ response.status = 200
        /\ "error" \notin response.keys
        /\ parser = "invoice_comprehensive"
        /\ response.keys \ (ErrorReportKeys \cup FullReportKeys) # {}

\* The rule on a risk list: two high give high, one high or three medium medium, else
\* low; the letter case of the levels is ignored.
RuleLevel(risks) ==
    LET count(levels) == Cardinality({i \in 1..Len(risks) : risks[i] \in levels})
    IN  IF count({"high", "HIGH"}) >= 2 THEN "high"
        ELSE IF count({"high", "HIGH"}) >= 1 \/ count({"medium", "MEDIUM"}) >= 3
        THEN "medium"
        ELSE "low"

Lower(l) ==
    CASE l = "HIGH" -> "high" [] l = "MEDIUM" -> "medium" [] l = "LOW" -> "low"
      [] OTHER -> l

\* C14: every report of analyze_contract and of produce_risk_analysis that carries an
\* overall risk level, the fallback reports included, carries the level the rule gives
\* for the report's own risk list.
C14_OverallRiskDerivation ==
    (parser \in {"analyze_contract", "produce_risk_analysis"}
        /\ parsed.overallRiskLevel # "absent")
        => Lower(parsed.overallRiskLevel) = RuleLevel(parsed.risks)

\* The amount a currency string stands for; numbers and nulls as they are
AmountOf(x) == IF x < Null THEN -x - 2 ELSE x

Normalized(d) ==
    [subtotal |-> AmountOf(d.subtotal), discount |-> AmountOf(d.discount),
     shippingCharges |-> AmountOf(d.shippingCharges),
     totalAmount |-> AmountOf(d.totalAmount),
     taxBreakdown |-> [i \in 1..Len(d.taxBreakdown) |-> AmountOf(d.taxBreakdown[i])],
     lineItems |-> [i \in 1..Len(d.lineItems) |-> AmountOf(d.lineItems[i])]]

\* C15: when the parsed reply holds an amount as a currency-formatted string, the
\* extraction step does not fail: the findings are those of the amounts as numbers and
\* the financial details hold the numbers.
C15_NumericNormalization ==
    (Verified /\ ArithmeticRaises(reply_data)) =>
        /\ calculation_errors = CalculationErrors(Normalized(reply_data))
        /\ ~financial_info.empty
        /\ financial_info.totalAmount = OrZero(AmountOf(reply_data.totalAmount))

\* The sum of the amounts of a component list, strings read as the amounts they write
AmountSum(items) == Sum([i \in 1..Len(items) |-> AmountOf(items[i])])

\* C16: on a parsed reply that states the document's totals, the mistakes hold the
\* earnings mismatch exactly when the sum of the earnings components differs from the
\* stated total earnings by more than 0.01, and the net-pay finding exactly when
\* earnings minus deductions differs from the stated net pay by more than 0.01.
C16_PayrollReconciliation ==
    (/\ parser = "salary_slip"
     /\ parsed.kind = "parsed"
     /\ reply_data.totalEarningsFromDoc # Null
     /\ reply_data.netPayFromDoc # Null) =>
        LET d   == reply_data
            net == AmountSum(d.earnings) - AmountSum(d.deductions)
            Has(title) == \E i \in 1..Len(calculation_errors) :
                             calculation_errors[i].title = title
        IN  /\ Has("Total Earnings Mismatch")
                  <=> Abs(AmountSum(d.earnings) - d.totalEarningsFromDoc) > Epsilon
            /\ Has("Net Pay Calculation Error")
                  <=> Abs(net - d.netPayFromDoc) > Epsilon

\* C17: the documents of a text, the first whole and every later one without its first
\* 100 characters, are consecutive spans that cover the text from its first character
\* to its last.
C17_ChunkReconstruction ==
    chunks # <<>> =>
        LET Rest(k) == IF k = 1 THEN chunks[1].first
                       ELSE IF chunks[k].first + ChunkOverlap > chunks[k].last
                            THEN chunks[k].last + 1
                            ELSE chunks[k].first + ChunkOverlap
        IN  /\ Rest(1) = 1
            /\ \A k \in 2..Len(chunks) : Rest(k) = chunks[k - 1].last + 1
            /\ chunks[Len(chunks)].last = JoinLen(upload_text, 1, Len(upload_text))

\* C18 as stated: no targeted query is issued once the kept content reaches the
\* threshold, and the content a sufficient targeted query gave is the one returned.
C18_ContentSufficiencyGate ==
    /\ [](pc = "targeted" => content < SufficientLen)
    /\ [][(pc = "targeted" /\ content >= SufficientLen)
             => (content' = content /\ docs' = docs)]_vars

\* C18 amended: the four targeted queries all run, in order, whatever they return; the
\* kept content is the longest result any executed query gave; the threshold is tested
\* only after the fourth, to choose between the broad queries and returning.
C18_AllTargetedQueriesRun ==
    /\ [](content = longest)
    /\ [][pc = "targeted" =>
             IF qi < NumTargeted
             THEN pc' = "targeted" /\ qi' = qi + 1
             ELSE pc' = AfterTargeted(content')]_vars

\* The fourth targeted query is about to be issued although the kept content is
\* sufficient, and a later, longer result has already replaced the first sufficient one.
C18_Witness ==
    /\ pc = "targeted"
    /\ qi = NumTargeted
    /\ content = 300
    /\ docs.src = "targeted"

\* C19: the direct vector-store search is about to run only while the kept content is
\* below the threshold, and the cascade passes from the targeted or the broad queries
\* to its end without that search only when the kept content reaches the threshold.
C19_BulkDumpFallback ==
    /\ [](pc = "vector" => content < SufficientLen)
    /\ [][(pc \in {"targeted", "broad"} /\ pc' = "retrieved")
             => content' >= SufficientLen]_vars
    /\ [][(pc \in {"targeted", "broad"} /\ pc' = "vector")
             => content' < SufficientLen]_vars

\* The broad queries ended with 30 characters kept: the vector store is searched next.
C19_Witness ==
    /\ pc = "vector"
    /\ has_grd
    /\ content = 30
    /\ docs.src = "broad"

\* C20 as stated: nothing but the detection runs before the document type is known, and
\* the verification of the invoice has run only in a run whose extraction calls
\* (financial data, risk, payment terms, tables) have all returned, that is, in a run
\* that has reached its end with the report.
C20_PhaseOrdering ==
    /\ pc \notin {"detect", "failed"} => doc_type # "none"
    /\ parser = "invoice_comprehensive" => pc = "done"

\* C20 amended: the detection completes before any extraction call; the run is
\* sequential: the verification runs right after the comprehensive call has returned
\* or failed, findings come from it alone, and it is complete when the risk prompt,
\* the first step of the later calls, is formatted.
C20_PhaseOrderingAmended ==
    /\ [](pc \notin {"detect", "failed"} => doc_type # "none")
    /\ [][parser' # parser => (pc = "verify" /\ (call_failed \/ reply # <<>>))]_vars
    /\ [](calculation_errors # <<>> => parser = "invoice_comprehensive")
    /\ [](pc = "risk_prompt" => parser = "invoice_comprehensive")

\* A total mismatch has been found and the risk, payment and table calls are not yet
\* issued.
C20_Witness ==
    /\ pc = "risk_prompt"
    /\ Verified
    /\ Len(calculation_errors) = 1
    /\ calculation_errors[1].title = TotalMismatch
    /\ response = NoResponse

\* ---------------------------------------------------------------------------
\* Inference calls of one analyze_business_doc run
\* ---------------------------------------------------------------------------

\* The calls of the run issued by the step named s.
CallsOf(s) == SelectSeq(calls, LAMBDA c : c.step = s)

\* The calls issued after the document type was detected.
ExtractionCalls == SelectSeq(calls, LAMBDA c : c.step # "detect")

\* C21 (as stated): for a document detected as Invoice, financial fields and line
\* items are each obtained by their own inference call, so once both have been
\* extracted from a parsed reply at least two extraction calls have been issued.
C21_SeparateCallsPerSchema ==
    (doc_type = "Invoice" /\ Verified) => Len(ExtractionCalls) >= 2

\* C21 (amended): for a document detected as Invoice, financial fields and line
\* items are obtained together from the reply of one comprehensive inference call
\* whose context is truncated to 10,000 characters.
C21_SingleComprehensiveCall ==
    (doc_type = "Invoice" /\ parser = "invoice_comprehensive") =>
        /\ CallsOf("comprehensive") = <<[step |-> "comprehensive", budget |-> 10000]>>
        /\ Verified => /\ financial_info = FinancialInfo(reply_data)
                       /\ line_items_info = LineItemsInfo(reply_data)

C21_Witness ==
    /\ doc_type = "Invoice" /\ Verified /\ Terminal
    /\ reply_data.subtotal # Null /\ Len(reply_data.lineItems) = MaxItems
    /\ financial_info = FinancialInfo(reply_data)
    /\ line_items_info = LineItemsInfo(reply_data)
    /\ Len(calls) = 2

\* The steps of a run that issue inference calls.
Steps ==
    {"detect", "comprehensive", "tables", "insights", "risk_analysis", "action_items",
     "negotiation"}

\* C22: every extraction step issues at most one inference call per invocation,
\* whether the call raised, returned an unparsable reply or returned a parsed one,
\* and extract_tables issues none when the content it retrieved has fewer than 50
\* characters.
C22_NoAutomaticRetries ==
    /\ \A s \in Steps : Len(CallsOf(s)) <= 1
    /\ \A i \in 1..Len(calls) : calls[i].step \in Steps
    /\ tables_content < MinTablesLen => CallsOf("tables") = <<>>

C22_Witness ==
    /\ pc = "failed" /\ ~all_ok
    /\ tables_content = 30
    /\ Len(calls) = 3 /\ CallsOf("tables") = <<>>

C24_PromptConstructionNeverFails ==
    /\ parser = "invoice_comprehensive" =>
            /\ ~FormatRaises(RiskTemplateFields, RiskFormatArgs)
            /\ ~FormatRaises(PaymentTemplateFields, PaymentFormatArgs)
            /\ pc = "failed" => ~all_ok
    /\ (parser = "salary_slip" /\ parsed.kind = "parsed") =>
            /\ ~FormatRaises(TaxTemplateFields, TaxFormatArgs)
            /\ calculation_errors # AnalysisError

\* C25: once an upload has succeeded, so that some worker's retriever_cache holds a
\* retriever under "active", no later analysis request is answered 400 "Please upload
\* a document first", whichever worker serves it.
C25_UploadVisibleToEveryWorker ==
    (/\ last_request.endpoint = "analyze"
     /\ \E w \in Workers : retriever_cache[w]["active"] # NoRetriever)
        => last_request.status # 400

\* C26: when no request is in progress, for every file_id other than "active" the
\* retriever under retriever_cache[file_id] and the entry under file_store[file_id]
\* come from one and the same request, and the key is in one map exactly when it is
\* in the other.
C26_RegistryConsistency ==
    (\A c \in Clients : threads[c] = IdleThread) =>
        \A w \in Workers, k \in Keys \ {"active"} :
            retriever_cache[w][k] = file_store[w][k]

\* The endpoints that read the registry and analyse the document found there.
AnalysisEndpoints == {"analyze", "ask"}

\* A request of an analysis endpoint is answered in this step while no registry copy
\* holds a retriever under "active".
AnsweredWithoutDocument ==
    /\ last_request' # last_request
    /\ last_request'.endpoint \in AnalysisEndpoints
    /\ \A w \in Workers : retriever_cache[w]["active"] = NoRetriever

\* C27 (as stated): an analysis request served while the registry key it requires is
\* absent is answered 400, has used no retriever (no inference or embedding call) and
\* leaves retriever_cache unchanged, whether or not an API key is configured.
C27_MissingDocumentGuard ==
    [][AnsweredWithoutDocument =>
          /\ last_request'.status = 400
          /\ last_request'.got = NoRetriever
          /\ UNCHANGED retriever_cache]_vars

\* C27 (amended): such a request is answered 400 when the handler could read its
\* request (a JSON object body where it reads one); in every case it is answered with
\* an error status, has used no retriever and leaves retriever_cache unchanged, whether
\* or not an API key is configured.
C27_MissingDocumentGuardAmended ==
    [][AnsweredWithoutDocument =>
          /\ last_request'.input # "malformed" => last_request'.status = 400
          /\ last_request'.status \in {400, 500}
          /\ last_request'.got = NoRetriever
          /\ UNCHANGED retriever_cache]_vars

\* /ask with a JSON object body was answered 400 before any document was ingested.
C27_Witness ==
    /\ last_request.endpoint = "ask"
    /\ last_request.input = "object"
    /\ last_request.status = 400
    /\ \A w \in Workers : retriever_cache[w]["active"] = NoRetriever

\* C28: along the cascade the kept content never gets shorter from one query to the
\* next, it is at every moment at least as long as the result of every query that was
\* executed and returned documents, and the kept document list is the one the kept
\* content was built from (the empty list with the empty content).
C28_KeepsLongestResult ==
    /\ [][content' >= content]_vars
    /\ [](content >= longest)
    /\ [](IF content = 0 THEN docs = NoDocs ELSE docs.len = content /\ docs.src # "none")

\* The broad queries replaced a short targeted result by the longest one.
C28_Witness ==
    /\ pc = "retrieved"
    /\ docs.src = "broad"
    /\ docs.len = 300
    /\ content = 300
    /\ longest = 300

C30_EdiResponseConsistency ==
    edi_response.status = 200 =>
        /\ Range(edi_response.validation.errors) \subseteq Range(edi_response.errors)
        /\ Range(edi_response.validation.warnings) \subseteq Range(edi_response.warnings)
        /\ edi_response.formatType = edi_response.validation.formatType

====
